---------------------------- MODULE Spec2Model ----------------------------
(***************************************************************************)
(* A model of the `Partial` derive macro of partial_struct (src/lib.rs)    *)
(* and of the code it generates.                                           *)
(*                                                                         *)
(* Two layers are modelled:                                                *)
(*   - the expansion pass `derive_partial`: directive parsing, the         *)
(*     collection loop, the shape match, the per-directive closure and the *)
(*     final concatenation of the generated token streams;                 *)
(*   - the generated methods, interpreted over record values:              *)
(*     from_<record>_with_omitted, into_<target>_with_omitted,             *)
(*     to_<record> and to_<record>_cloned.                                 *)
(*                                                                         *)
(* Identifiers are natural numbers (their order is the lexicographic order *)
(* of the names); an Option is a sequence of length 0 (None) or 1 (Some).  *)
(***************************************************************************)
EXTENDS Integers, Sequences, FiniteSets, TLC

\* Largest number of items (literals, clauses, stray tokens) written in all
\* the #[partial(...)] attributes of one record together.
MaxItems == 2
\* Largest number of #[partial(...)] attributes on one record.
MaxAttrs == 2
\* Largest number of fields of a record whose generated code is executed.
NumFields == 3

\* The identifiers that records and directives of the expansion pass use.
Idents == {1, 2}
OrigName == "Rec"
TargetLits == {"A"}
Values == {0, 1}

None == << >>
Some(x) == << x >>

Range(s) == {s[i] : i \in 1..Len(s)}
SeqsUpTo(S, n) == UNION {[1..k -> S] : k \in 0..n}
InjSeqs(S) == {s \in SeqsUpTo(S, Cardinality(S)) :
                 \A i, j \in 1..Len(s) : i # j => s[i] # s[j]}
Perms(S) == {s \in [1..Cardinality(S) -> S] :
               \A i, j \in 1..Cardinality(S) : i # j => s[i] # s[j]}
SortedSeq(S) == CHOOSE s \in Perms(S) : \A i, j \in 1..Len(s) : i < j => s[i] < s[j]
MapSeq(s, F(_)) == [i \in 1..Len(s) |-> F(s[i])]
Reverse(s) == [i \in 1..Len(s) |-> s[Len(s) + 1 - i]]

(***************************************************************************)
(* Raw directive content: a sequence of items.  The separating commas are  *)
(* optional in the parser (lib.rs:66-68) and are not items; any other      *)
(* token that is neither a string literal nor an identifier is "punct".    *)
(***************************************************************************)
Lit(s) == [k |-> "lit", key |-> s, list |-> << >>, wf |-> TRUE]
Group(key, list) == [k |-> "group", key |-> key, list |-> list, wf |-> TRUE]
BadGroup(key) == [k |-> "group", key |-> key, list |-> << >>, wf |-> FALSE]
BareIdent(key) == [k |-> "ident", key |-> key, list |-> << >>, wf |-> TRUE]
Punct == [k |-> "punct", key |-> "", list |-> << >>, wf |-> TRUE]

NoErr == [kind |-> "none", msg |-> "", names |-> << >>, attr |-> 0, item |-> 0]
SyntaxErr(msg, item) ==
  [kind |-> "syntax", msg |-> msg, names |-> << >>, attr |-> 0, item |-> item]

EmptyArgs == [target_name |-> None, derive_traits |-> << >>,
              omit_fields |-> << >>, optional_fields |-> << >>]

KnownKey(key) == key \in {"derive", "omit", "optional"}

\* Variant: a clause overwrites the list of an earlier clause of its kind.
ExtendArgsReplace(acc, key, list) ==
  CASE key = "derive" -> [acc EXCEPT !.derive_traits = list]
    [] key = "omit" -> [acc EXCEPT !.omit_fields = list]
    [] OTHER -> [acc EXCEPT !.optional_fields = list]

ExtendArgs(acc, key, list) ==
  CASE key = "derive" -> [acc EXCEPT !.derive_traits = @ \o list]
    [] key = "omit" -> [acc EXCEPT !.omit_fields = @ \o list]
    [] OTHER -> [acc EXCEPT !.optional_fields = @ \o list]

RECURSIVE ParseFrom(_, _, _)
ParseFrom(input, k, acc) ==
  IF k > Len(input)
  THEN [ok |-> TRUE, args |-> acc, err |-> NoErr]
  ELSE LET tok == input[k]
           Fail(msg) == [ok |-> FALSE, args |-> EmptyArgs, err |-> SyntaxErr(msg, k)]
       IN CASE tok.k = "lit" ->
                 IF acc.target_name # None
                 THEN Fail("unexpected token")
                 ELSE ParseFrom(input, k + 1, [acc EXCEPT !.target_name = Some(tok.key)])
            [] tok.k = "ident" -> Fail("expected parentheses")
            [] tok.k = "group" ->
                 IF KnownKey(tok.key)
                 THEN IF tok.wf
                      THEN ParseFrom(input, k + 1, ExtendArgs(acc, tok.key, tok.list))
                      ELSE Fail("expected identifier")
                 ELSE Fail("Expected 'derive', 'omit', or 'optional'")
            [] OTHER -> Fail("unexpected token")

\* <PartialArgs as Parse>::parse
ParsePartialArgs(input) == ParseFrom(input, 1, EmptyArgs)


(***************************************************************************)
(* The token stream a pass returns: a sequence of items, each either a     *)
(* compile_error!{} invocation or the code generated for one directive.    *)
(***************************************************************************)
OutErr(e) == [t |-> "compile_error", err |-> e, gen |-> None]
OutGen(g) == [t |-> "generated", err |-> NoErr, gen |-> Some(g)]

ShapeErr(msg) ==
  [kind |-> "shape", msg |-> msg, names |-> << >>, attr |-> 0, item |-> 0]
ConflictErr(names) ==
  [kind |-> "conflict", msg |-> "Field(s) cannot be both omitted and optional: ",
   names |-> names, attr |-> 0, item |-> 0]

\* Variant: the unit-struct arm is missing from the match.
ShapeCheckUnitAccepted(sh) ==
  CASE sh \in {"named", "unit"} -> None
    [] sh = "unnamed" -> Some(ShapeErr("Partial can only be derived for structs with named fields"))
    [] sh = "enum" -> Some(ShapeErr("Partial can only be derived for structs, not enums"))
    [] OTHER -> Some(ShapeErr("Partial can only be derived for structs, not unions"))

\* match &ast.data: None for a struct with named fields, else the error.
ShapeCheck(sh) ==
  CASE sh = "named" -> None
    [] sh = "unnamed" -> Some(ShapeErr("Partial can only be derived for structs with named fields"))
    [] sh = "unit" -> Some(ShapeErr("Partial cannot be derived for unit structs"))
    [] sh = "enum" -> Some(ShapeErr("Partial can only be derived for structs, not enums"))
    [] OTHER -> Some(ShapeErr("Partial can only be derived for structs, not unions"))

\* Variant: every error overwrites the stored one (the last error wins).
StoreLastError(fe, err) == Some(err)

\* if first_error.is_none() { first_error = Some(err) }
StoreFirstError(fe, err) == IF fe = None THEN Some(err) ELSE fe

\* if first_error.is_none() { partial_args_list.push(args) }
CollectArgs(list, fe, args) == IF fe = None THEN Append(list, args) ELSE list

\* Variant: the default name lacks the "Partial" prefix.
TargetNameStrBare(target_name) ==
  IF target_name = None THEN << OrigName >> ELSE << target_name[1] >>

\* target_name.map(|lit| lit.value()).unwrap_or_else(|| format!("Partial{}", orig_name))
TargetNameStr(target_name) ==
  IF target_name = None THEN << "Partial", OrigName >> ELSE << target_name[1] >>

IncludedFields(fs, omit_names, optional_names) ==
  SelectSeq(fs, LAMBDA f : f \notin omit_names /\ f \notin optional_names)
OmittedFields(fs, omit_names) == SelectSeq(fs, LAMBDA f : f \in omit_names)
OptionalFields(fs, omit_names, optional_names) ==
  SelectSeq(fs, LAMBDA f : f \notin omit_names /\ f \in optional_names)

\* The fields of the generated struct: included, then optional as Option<T>.
StructFields(included, optional) ==
  MapSeq(included, LAMBDA f : [ident |-> f, opt |-> FALSE])
    \o MapSeq(optional, LAMBDA f : [ident |-> f, opt |-> TRUE])

\* Variant: the omitted parameters are emitted in reverse declaration order.
ToMethodParamsReversed(omitted, optional) ==
  MapSeq(Reverse(omitted), LAMBDA f : [ident |-> f, opt |-> FALSE])
    \o MapSeq(optional, LAMBDA f : [ident |-> f, opt |-> TRUE])

ToMethodParams(omitted, optional) ==
  MapSeq(omitted, LAMBDA f : [ident |-> f, opt |-> FALSE])
    \o MapSeq(optional, LAMBDA f : [ident |-> f, opt |-> TRUE])

\* Variant: the supplied override is tried before the projection's own value.
ConstructionAssignmentsOverrideFirst(fs, omit_names, optional_names) ==
  MapSeq(fs, LAMBDA f :
    [ident |-> f,
     expr |-> IF f \in omit_names THEN "param"
              ELSE IF f \in optional_names THEN "param.or(self.clone()).expect"
              ELSE "self"])

\* Variant: the assignments follow the omitted/optional/included grouping.
ConstructionAssignmentsGrouped(fs, omit_names, optional_names) ==
  MapSeq(OmittedFields(fs, omit_names), LAMBDA f : [ident |-> f, expr |-> "param"])
    \o MapSeq(OptionalFields(fs, omit_names, optional_names),
               LAMBDA f : [ident |-> f, expr |-> "self.clone().or(param).expect"])
    \o MapSeq(IncludedFields(fs, omit_names, optional_names),
               LAMBDA f : [ident |-> f, expr |-> "self"])

ConstructionAssignments(fs, omit_names, optional_names) ==
  MapSeq(fs, LAMBDA f :
    [ident |-> f,
     expr |-> IF f \in omit_names THEN "param"
              ELSE IF f \in optional_names THEN "self.clone().or(param).expect"
              ELSE "self"])

\* Variant: the cloning method tries the supplied override first.
ClonedConstructionAssignmentsOverrideFirst(fs, omit_names, optional_names) ==
  MapSeq(fs, LAMBDA f :
    [ident |-> f,
     expr |-> IF f \in omit_names THEN "param"
              ELSE IF f \in optional_names THEN "param.or(self.clone()).expect"
              ELSE "self.clone()"])

ClonedConstructionAssignments(fs, omit_names, optional_names) ==
  MapSeq(fs, LAMBDA f :
    [ident |-> f,
     expr |-> IF f \in omit_names THEN "param"
              ELSE IF f \in optional_names THEN "self.clone().or(param).expect"
              ELSE "self.clone()"])

ProjectIncluded(included, optional) ==
  MapSeq(included, LAMBDA f : [ident |-> f, expr |-> "full"])
    \o MapSeq(optional, LAMBDA f : [ident |-> f, expr |-> "Some(full)"])

PartialFromFullAssignments(included, optional) ==
  MapSeq(included, LAMBDA f : [ident |-> f, expr |-> "local"])
    \o MapSeq(optional, LAMBDA f : [ident |-> f, expr |-> "Some(local)"])

\* Variant: the omitted_fields.is_empty() test is missing.
OmittedStructAlways(target, omitted) ==
  [tokens |-> Some([name |-> target \o << "Omitted" >>, fields |-> omitted]),
   ty |-> target \o << "Omitted" >>,
   ctor |-> Some(omitted)]

\* (omitted_struct_tokens, omitted_struct_ty, omitted_struct_ctor)
OmittedStruct(target, omitted) ==
  IF omitted = << >>
  THEN [tokens |-> None, ty |-> << "()" >>, ctor |-> None]
  ELSE [tokens |-> Some([name |-> target \o << "Omitted" >>, fields |-> omitted]),
        ty |-> target \o << "Omitted" >>,
        ctor |-> Some(omitted)]

\* The body of the closure mapped over partial_args_list; `order` is the
\* iteration order of the HashSet intersection.
GenerateStruct(fs, args, order) ==
  LET target == TargetNameStr(args.target_name)
      omit_names == Range(args.omit_fields)
      optional_names == Range(args.optional_fields)
      included == IncludedFields(fs, omit_names, optional_names)
      omitted == OmittedFields(fs, omit_names)
      optional == OptionalFields(fs, omit_names, optional_names)
      om == OmittedStruct(target, omitted)
  IN IF omit_names \cap optional_names # {}
     THEN << OutErr(ConflictErr(order)) >>
     ELSE << OutGen([target |-> target,
                     derives |-> args.derive_traits,
                     struct_fields |-> StructFields(included, optional),
                     omitted_struct |-> om.tokens,
                     omitted_ty |-> om.ty,
                     omitted_ctor |-> om.ctor,
                     to_params |-> ToMethodParams(omitted, optional),
                     construction |->
                       ConstructionAssignments(fs, omit_names, optional_names),
                     cloned_construction |->
                       ClonedConstructionAssignments(fs, omit_names, optional_names),
                     field_idents |-> fs,
                     project_included |-> ProjectIncluded(included, optional),
                     from_full |-> PartialFromFullAssignments(included, optional)]) >>

RECURSIVE Concat(_)
Concat(ss) == IF ss = << >> THEN << >> ELSE Head(ss) \o Concat(Tail(ss))


(***************************************************************************)
(* The generated methods, as the Rust they expand to evaluates.  A record  *)
(* value is a function from field identifiers to values; an Option<T>      *)
(* field holds None or Some(v).                                            *)
(***************************************************************************)
OptionValues == {None} \cup {Some(v) : v \in Values}

AssignFor(assigns, f) == CHOOSE a \in Range(assigns) : a.ident = f
AssignedIdents(assigns) == {a.ident : a \in Range(assigns)}

\* fn from_<record>_with_omitted(full) -> (Self, <target>Omitted or ())
FromWithOmitted(g, fl) ==
  LET local == [f \in Range(g.field_idents) |-> fl[f]]
      Eval(a) == IF a.expr = "Some(local)" THEN Some(local[a.ident])
                 ELSE local[a.ident]
  IN [proj |-> [f \in AssignedIdents(g.from_full) |->
                  Eval(AssignFor(g.from_full, f))],
      rem |-> IF g.omitted_ctor = None THEN None
              ELSE Some([f \in Range(g.omitted_ctor[1]) |-> local[f]])]

\* fn into_<target>_with_omitted(self): forwards to from_<record>_with_omitted.
IntoWithOmitted(g, fl) == FromWithOmitted(g, fl)

\* Option::or
OptionOr(a, b) == IF a # None THEN a ELSE b

\* fn to_<record>(self, params...) -> Record; .expect() on None panics.
ToFull(g, self, args) ==
  LET Param(f) == args[CHOOSE i \in 1..Len(g.to_params) : g.to_params[i].ident = f]
      Eval(a) ==
        CASE a.expr = "param" -> Some(Param(a.ident))
          [] a.expr = "self" -> Some(self[a.ident])
          [] a.expr = "self.clone().or(param).expect" ->
               OptionOr(self[a.ident], Param(a.ident))
          [] OTHER -> OptionOr(Param(a.ident), self[a.ident])
      fails == \E a \in Range(g.construction) : Eval(a) = None
  IN [panic |-> fails,
      value |-> IF fails THEN << >>
                ELSE [f \in AssignedIdents(g.construction) |->
                        Eval(AssignFor(g.construction, f))[1]]]

\* Clone::clone of a field value
Clone(v) == v

\* fn to_<record>_cloned(&self, params...) -> Record; `self` is what the
\* borrowed projection holds when the call returns or unwinds.
ToFullCloned(g, self, args) ==
  LET Param(f) == args[CHOOSE i \in 1..Len(g.to_params) : g.to_params[i].ident = f]
      Eval(a) ==
        CASE a.expr = "param" -> Some(Param(a.ident))
          [] a.expr = "self.clone()" -> Some(Clone(self[a.ident]))
          [] a.expr = "self.clone().or(param).expect" ->
               OptionOr(Clone(self[a.ident]), Param(a.ident))
          [] OTHER -> OptionOr(Param(a.ident), Clone(self[a.ident]))
      fails == \E a \in Range(g.cloned_construction) : Eval(a) = None
  IN [panic |-> fails,
      value |-> IF fails THEN << >>
                ELSE [f \in AssignedIdents(g.cloned_construction) |->
                        Eval(AssignFor(g.cloned_construction, f))[1]],
      self |-> self]

\* The values a struct literal of the generated type can hold.
ProjectionValues(g) ==
  LET inc == {a.ident : a \in {b \in Range(g.struct_fields) : ~b.opt}}
      opt == {a.ident : a \in {b \in Range(g.struct_fields) : b.opt}}
  IN {[f \in inc \cup opt |-> IF f \in inc THEN iv[f] ELSE ov[f]] :
        iv \in [inc -> Values], ov \in [opt -> OptionValues]}

\* The argument lists to_<record> type-checks with.
ArgumentLists(g) ==
  LET n == Len(g.to_params)
      om == {i \in 1..n : ~g.to_params[i].opt}
      op == {i \in 1..n : g.to_params[i].opt}
  IN {[i \in 1..n |-> IF i \in om THEN mv[i] ELSE pv[i]] :
        mv \in [om -> Values], pv \in [op -> OptionValues]}

(***************************************************************************)
(* State.  shape, fields and attrs are the parsed DeriveInput (only the    *)
(* #[partial] attributes are kept, as the filter of lib.rs:93 does); the   *)
(* next group is the local state of derive_partial; the last group is the  *)
(* state of a program that calls the generated methods.                    *)
(***************************************************************************)
VARIABLES shape, fields, attrs,
          pc, idx, parsed, partial_args_list, first_error,
          gidx, partial_structs, result,
          rpc, sel, via, full, proj, rem, call_args, rebuilt, panicked

input_vars == << shape, fields, attrs >>
pass_vars == << pc, idx, parsed, partial_args_list, first_error,
                gidx, partial_structs, result >>
run_vars == << rpc, sel, via, full, proj, rem, call_args, rebuilt, panicked >>
vars == << input_vars, pass_vars, run_vars >>

Shapes == {"named", "unnamed", "unit", "enum", "union"}

\* The items directives of the expansion pass are written with.
Items ==
  {Lit(s) : s \in TargetLits}
    \cup {Group(key, l) : key \in {"omit", "optional"}, l \in InjSeqs(Idents)}
    \cup {Group("derive", << 1 >>), Group("bogus", << >>),
          BadGroup("omit"), BareIdent("omit"), Punct}

\* The items of `flat` that `owner` gives to attribute j (owner is
\* nondecreasing, so they are contiguous).
ItemsOf(flat, owner, j) ==
  LET before == Cardinality({i \in 1..Len(flat) : owner[i] < j})
      mine == Cardinality({i \in 1..Len(flat) : owner[i] = j})
  IN SubSeq(flat, before + 1, before + mine)

\* The ways to give the items of `flat`, in order, to n attributes.
Owners(flat, n) ==
  {o \in [1..Len(flat) -> 1..n] : \A i, j \in 1..Len(flat) : i < j => o[i] <= o[j]}

PassStart ==
  /\ pc = "collect"
  /\ idx = 1
  /\ parsed = {}
  /\ partial_args_list = << >>
  /\ first_error = None
  /\ gidx = 1
  /\ partial_structs = << >>
  /\ result = << >>

RunStart ==
  /\ rpc = "idle"
  /\ sel = 0
  /\ via = ""
  /\ full = << >>
  /\ proj = << >>
  /\ rem = None
  /\ call_args = << >>
  /\ rebuilt = << >>
  /\ panicked = FALSE

Init ==
  /\ shape \in Shapes
  /\ fields \in (IF shape = "named" THEN InjSeqs(Idents) ELSE {<< >>})
  /\ \E n \in 0..MaxAttrs : \E flat \in SeqsUpTo(Items, MaxItems) :
       \E owner \in Owners(flat, n) :
         attrs = [j \in 1..n |-> ItemsOf(flat, owner, j)]
  /\ PassStart
  /\ RunStart

(***************************************************************************)
(* derive_partial                                                          *)
(***************************************************************************)
\* One iteration of the collection loop (lib.rs:90-112).
ParseAttr ==
  /\ pc = "collect"
  /\ idx <= Len(attrs)
  /\ LET r == ParsePartialArgs(attrs[idx])
     IN /\ partial_args_list' =
             (IF r.ok THEN CollectArgs(partial_args_list, first_error, r.args)
                      ELSE partial_args_list)
        /\ first_error' =
             (IF r.ok THEN first_error
                      ELSE StoreFirstError(first_error, [r.err EXCEPT !.attr = idx]))
  /\ parsed' = parsed \cup {idx}
  /\ idx' = idx + 1
  /\ UNCHANGED << pc, gidx, partial_structs, result, input_vars, run_vars >>

\* After the loop: the error return and the default directive (lib.rs:114-138).
EndCollect ==
  /\ pc = "collect"
  /\ idx > Len(attrs)
  /\ IF first_error # None
     THEN /\ result' = << OutErr(first_error[1]) >>
          /\ pc' = "done"
          /\ UNCHANGED partial_args_list
     ELSE IF partial_args_list = << >> /\ attrs = << >>
     THEN /\ partial_args_list' = << EmptyArgs >>
          /\ pc' = "shape"
          /\ UNCHANGED result
     ELSE IF partial_args_list = << >>
     THEN /\ result' = << >>
          /\ pc' = "done"
          /\ UNCHANGED partial_args_list
     ELSE /\ pc' = "shape"
          /\ UNCHANGED << partial_args_list, result >>
  /\ UNCHANGED << idx, parsed, first_error, gidx, partial_structs,
                 input_vars, run_vars >>

\* The match on ast.data (lib.rs:141-179).
MatchShape ==
  /\ pc = "shape"
  /\ LET e == ShapeCheck(shape)
     IN IF e # None
        THEN /\ result' = << OutErr(e[1]) >>
             /\ pc' = "done"
        ELSE /\ pc' = "generate"
             /\ UNCHANGED result
  /\ UNCHANGED << idx, parsed, partial_args_list, first_error, gidx,
                 partial_structs, input_vars, run_vars >>

\* The closure applied to one PartialArgs (lib.rs:182-470).
Generate ==
  /\ pc = "generate"
  /\ gidx <= Len(partial_args_list)
  /\ LET args == partial_args_list[gidx]
     IN \E order \in Perms(Range(args.omit_fields) \cap Range(args.optional_fields)) :
          partial_structs' =
            Append(partial_structs, GenerateStruct(fields, args, order))
  /\ gidx' = gidx + 1
  /\ UNCHANGED << pc, idx, parsed, partial_args_list, first_error, result,
                 input_vars, run_vars >>

\* quote! { #(#partial_structs)* } (lib.rs:472-475).
Combine ==
  /\ pc = "generate"
  /\ gidx > Len(partial_args_list)
  /\ result' = Concat(partial_structs)
  /\ pc' = "done"
  /\ UNCHANGED << idx, parsed, partial_args_list, first_error, gidx,
                 partial_structs, input_vars, run_vars >>

Next == ParseAttr \/ EndCollect \/ MatchShape \/ Generate \/ Combine

Spec == Init /\ [][Next]_vars

(***************************************************************************)
(* A program using the generated code.  It compiles only when the pass     *)
(* returned no compile_error!{}.                                           *)
(***************************************************************************)
Compiled ==
  /\ pc = "done"
  /\ \A n \in 1..Len(result) : result[n].t = "generated"

Gen(n) == result[n].gen[1]

\* PartialX::from_<record>_with_omitted(full)
CallFromWithOmitted ==
  /\ Compiled
  /\ rpc = "idle"
  /\ \E n \in 1..Len(result) : \E fl \in [Range(fields) -> Values] :
       LET r == FromWithOmitted(Gen(n), fl)
       IN /\ sel' = n
          /\ full' = fl
          /\ proj' = r.proj
          /\ rem' = r.rem
  /\ via' = "from"
  /\ rpc' = "split"
  /\ UNCHANGED << call_args, rebuilt, panicked, input_vars, pass_vars >>

\* full.into_<target>_with_omitted()
CallIntoWithOmitted ==
  /\ Compiled
  /\ rpc = "idle"
  /\ \E n \in 1..Len(result) : \E fl \in [Range(fields) -> Values] :
       LET r == IntoWithOmitted(Gen(n), fl)
       IN /\ sel' = n
          /\ full' = fl
          /\ proj' = r.proj
          /\ rem' = r.rem
  /\ via' = "into"
  /\ rpc' = "split"
  /\ UNCHANGED << call_args, rebuilt, panicked, input_vars, pass_vars >>

\* A projection written as a struct literal (all its fields are pub).
BuildProjection ==
  /\ Compiled
  /\ rpc = "idle"
  /\ \E n \in 1..Len(result) : \E p \in ProjectionValues(Gen(n)) :
       /\ sel' = n
       /\ proj' = p
  /\ via' = "literal"
  /\ rpc' = "literal"
  /\ UNCHANGED << full, rem, call_args, rebuilt, panicked, input_vars, pass_vars >>

\* projection.to_<record>(args...)
CallToFull ==
  /\ rpc \in {"split", "literal"}
  /\ \E a \in ArgumentLists(Gen(sel)) :
       LET r == ToFull(Gen(sel), proj, a)
       IN /\ call_args' = a
          /\ rebuilt' = r.value
          /\ panicked' = r.panic
  /\ rpc' = "rebuilt"
  /\ UNCHANGED << sel, via, full, proj, rem, input_vars, pass_vars >>

\* projection.to_<record>_cloned(args...)
CallToFullCloned ==
  /\ rpc \in {"split", "literal"}
  /\ \E a \in ArgumentLists(Gen(sel)) :
       LET r == ToFullCloned(Gen(sel), proj, a)
       IN /\ call_args' = a
          /\ rebuilt' = r.value
          /\ panicked' = r.panic
          /\ proj' = r.self
  /\ rpc' = "rebuilt_cloned"
  /\ UNCHANGED << sel, via, full, rem, input_vars, pass_vars >>

\* Records of up to NumFields fields, declared in descending identifier
\* order, with one directive whose omit and optional lists are disjoint (or
\* with no directive at all).
InitRun ==
  /\ shape = "named"
  /\ \E n \in 0..NumFields : fields = [i \in 1..n |-> n + 1 - i]
  /\ \/ attrs = << >>
     \/ \E O \in SUBSET (1..NumFields) : \E P \in SUBSET ((1..NumFields) \ O) :
          attrs = << << Group("omit", SortedSeq(O)),
                        Group("optional", SortedSeq(P)) >> >>
  /\ PassStart
  /\ RunStart

NextRun ==
  \/ ParseAttr \/ EndCollect \/ MatchShape \/ Generate \/ Combine
  \/ CallFromWithOmitted \/ CallIntoWithOmitted \/ BuildProjection \/ CallToFull
  \/ CallToFullCloned

SpecRun == InitRun /\ [][NextRun]_vars


(***************************************************************************)
(* Vocabulary of the properties: what a directive asks for, read from its  *)
(* raw items, and what a caller passes.                                    *)
(***************************************************************************)
ClauseIdents(d, key) ==
  UNION {Range(d[i].list) : i \in {j \in 1..Len(d) : d[j].k = "group" /\ d[j].key = key}}
DirOmit(d) == ClauseIdents(d, "omit")
DirOptional(d) == ClauseIdents(d, "optional")

\* The directive behind the generated struct in use (none: the default one).
UsedDirective == IF attrs = << >> THEN << >> ELSE attrs[sel]
DeclOmitted == SelectSeq(fields, LAMBDA f : f \in DirOmit(UsedDirective))
DeclOptional ==
  SelectSeq(fields, LAMBDA f : f \in DirOptional(UsedDirective)
                                 /\ f \notin DirOmit(UsedDirective))
DeclIncluded ==
  SelectSeq(fields, LAMBDA f : f \notin DirOptional(UsedDirective)
                                 /\ f \notin DirOmit(UsedDirective))
PosIn(seq, f) == CHOOSE i \in 1..Len(seq) : seq[i] = f
\* The override passed for optional field f: the arguments are the omitted
\* fields' values, then one override per optional field, in declaration order.
Override(f) == call_args[Len(DeclOmitted) + PosIn(DeclOptional, f)]
ArgsFromRemainder ==
  \A i \in 1..Len(DeclOmitted) : call_args[i] = rem[1][DeclOmitted[i]]

\* C1: splitting a full record with from_<record>_with_omitted and calling
\* to_<record> on the projection with the remainder's values (declaration
\* order of the omitted fields) followed by any overrides gives back the
\* full record and never panics.
C1_SplitThenRebuild ==
  (rpc = "rebuilt" /\ via = "from" /\ ArgsFromRemainder)
    => (~panicked /\ rebuilt = full)

C1_Witness ==
  /\ rpc = "rebuilt" /\ via = "from" /\ ArgsFromRemainder
  /\ Len(DeclOmitted) = 2 /\ Len(DeclOptional) = 1
  /\ full[DeclOmitted[1]] # full[DeclOmitted[2]]
  /\ Override(DeclOptional[1]) # None
  /\ Override(DeclOptional[1]) # Some(full[DeclOptional[1]])
  /\ rebuilt = full

\* C2: in to_<record> an optional field takes the projection's stored value
\* when there is one (the override is ignored), else the override; the call
\* panics exactly when some optional field has neither.
C2_OptionalResolution ==
  rpc = "rebuilt" =>
    /\ panicked <=> (\E f \in Range(DeclOptional) :
                       proj[f] = None /\ Override(f) = None)
    /\ ~panicked =>
         \A f \in Range(DeclOptional) :
           rebuilt[f] = (IF proj[f] # None THEN proj[f][1] ELSE Override(f)[1])

C2_Witness ==
  /\ rpc = "rebuilt" /\ ~panicked
  /\ \E f, h \in Range(DeclOptional) :
       /\ proj[f] # None /\ Override(f) # None /\ Override(f) # proj[f]
       /\ rebuilt[f] = proj[f][1]
       /\ proj[h] = None /\ rebuilt[h] = Override(h)[1]

\* C3: the assignments emitted for to_<record> and to_<record>_cloned name
\* every field of the record exactly once, in declaration order.
C3_DeclarationOrder ==
  \A n \in 1..Len(partial_structs) :
    partial_structs[n][1].t = "generated" =>
      LET g == partial_structs[n][1].gen[1]
      IN /\ MapSeq(g.construction, LAMBDA a : a.ident) = fields
         /\ MapSeq(g.cloned_construction, LAMBDA a : a.ident) = fields

C3_Witness ==
  /\ pc = "done" /\ fields = << 2, 1 >>
  /\ attrs = << << Group("optional", << 2 >>), Group("omit", << 1 >>) >> >>
  /\ Len(result) = 1 /\ result[1].t = "generated"
  /\ MapSeq(Gen(1).to_params, LAMBDA a : a.ident) = << 1, 2 >>

\* C4: the split (from_<record>_with_omitted or into_<target>_with_omitted)
\* puts each included value unchanged and each optional value as Some into
\* the projection and exactly the omitted values into the remainder; with
\* nothing omitted the remainder is () and no <target>Omitted is generated.
C4_SplitRouting ==
  rpc = "split" =>
    /\ DOMAIN proj = Range(DeclIncluded) \cup Range(DeclOptional)
    /\ \A f \in Range(DeclIncluded) : proj[f] = full[f]
    /\ \A f \in Range(DeclOptional) : proj[f] = Some(full[f])
    /\ IF DeclOmitted = << >>
       THEN rem = None /\ Gen(sel).omitted_struct = None
       ELSE /\ rem # None
            /\ DOMAIN rem[1] = Range(DeclOmitted)
            /\ \A f \in Range(DeclOmitted) : rem[1][f] = full[f]
            /\ Gen(sel).omitted_struct =
                 Some([name |-> Gen(sel).target \o << "Omitted" >>,
                       fields |-> DeclOmitted])

C4_Witness ==
  /\ rpc = "split" /\ via = "into"
  /\ DeclIncluded # << >> /\ DeclOptional # << >> /\ DeclOmitted # << >>
  /\ rem # None


(***************************************************************************)
(* Properties of the expansion pass.                                       *)
(***************************************************************************)
ParsesOk(d) == ParsePartialArgs(d).ok
AllParse == \A n \in 1..Len(attrs) : ParsesOk(attrs[n])
FailingAttrs == {n \in 1..Len(attrs) : ~ParsesOk(attrs[n])}
FirstFailing == CHOOSE n \in FailingAttrs : \A m \in FailingAttrs : n <= m
Conflict(d) == DirOmit(d) \cap DirOptional(d)
NamesDeclared(d) == (DirOmit(d) \cup DirOptional(d)) \subseteq Range(fields)
\* A pass that reached the per-directive closure for every written directive.
Expanded == pc = "done" /\ shape = "named" /\ attrs # << >> /\ AllParse

\* C5: a directive whose omit and optional sets overlap fails with an error
\* that lists every conflicting name, in sorted order (checked for the
\* directives that name declared fields only).
C5_ConflictListedSorted ==
  Expanded =>
    \A n \in 1..Len(attrs) :
      (Conflict(attrs[n]) # {} /\ NamesDeclared(attrs[n])) =>
        partial_structs[n] = << OutErr(ConflictErr(SortedSeq(Conflict(attrs[n])))) >>

\* C6: a directive naming a field the record does not declare fails, and no
\* projection type is generated for it.
C6_UnknownFieldRejected ==
  Expanded =>
    \A n \in 1..Len(attrs) :
      ~NamesDeclared(attrs[n]) =>
        partial_structs[n][1].t = "compile_error"

\* C7: a pass returns either the generated code of every directive and no
\* diagnostic, or exactly one diagnostic and no generated code (checked for
\* the passes whose directives name declared fields only).
C7_AllOrNothing ==
  (pc = "done" /\ \A m \in 1..Len(attrs) : ParsesOk(attrs[m]) => NamesDeclared(attrs[m])) =>
    \/ /\ Len(result) = Len(partial_args_list)
       /\ \A n \in 1..Len(result) : result[n].t = "generated"
    \/ /\ Len(result) = 1
       /\ result[1].t = "compile_error"

\* C8 as stated: the collector stops at the first directive that fails to
\* parse (later directives are not parsed), its error is the only
\* diagnostic, and no directive produces output.
C8_StopsAtFirstError ==
  FailingAttrs # {} =>
    /\ parsed \subseteq 1..FirstFailing
    /\ pc = "done" =>
         /\ result = << OutErr([ParsePartialArgs(attrs[FirstFailing]).err
                                  EXCEPT !.attr = FirstFailing]) >>
         /\ partial_structs = << >>

\* C8, amended: when some directive fails to parse, every directive is still
\* parsed, but the pass returns the error of the first failing directive as
\* its only diagnostic, whatever the later directives hold, and no
\* directive produces output.
C8_FirstErrorWins ==
  (pc = "done" /\ FailingAttrs # {}) =>
    /\ parsed = 1..Len(attrs)
    /\ result = << OutErr([ParsePartialArgs(attrs[FirstFailing]).err
                             EXCEPT !.attr = FirstFailing]) >>
    /\ partial_structs = << >>

C8_Witness ==
  /\ pc = "done" /\ Len(attrs) = 2 /\ FailingAttrs = {1, 2}
  /\ ParsePartialArgs(attrs[1]).err.msg # ParsePartialArgs(attrs[2]).err.msg
  /\ result[1].err.attr = 1

\* The code of the projection of a record's fields fs that omits nothing,
\* makes nothing optional, derives nothing and has the default name.
DefaultProjection(fs) ==
  [target |-> << "Partial", OrigName >>,
   derives |-> << >>,
   struct_fields |-> [i \in 1..Len(fs) |-> [ident |-> fs[i], opt |-> FALSE]],
   omitted_struct |-> None,
   omitted_ty |-> << "()" >>,
   omitted_ctor |-> None,
   to_params |-> << >>,
   construction |-> [i \in 1..Len(fs) |-> [ident |-> fs[i], expr |-> "self"]],
   cloned_construction |->
     [i \in 1..Len(fs) |-> [ident |-> fs[i], expr |-> "self.clone()"]],
   field_idents |-> fs,
   project_included |-> [i \in 1..Len(fs) |-> [ident |-> fs[i], expr |-> "full"]],
   from_full |-> [i \in 1..Len(fs) |-> [ident |-> fs[i], expr |-> "local"]]]

\* C9: a named-field record with no directive gets exactly the output of the
\* same record with one empty directive: one projection Partial<Record> with
\* every field unchanged, no <target>Omitted type and a unit remainder.
C9_ZeroDirectiveDefault ==
  (pc = "done" /\ shape = "named" /\ attrs \in {<< >>, << << >> >>}) =>
    result = << OutGen(DefaultProjection(fields)) >>

C9_Witness ==
  /\ pc = "done" /\ shape = "named" /\ attrs = << >> /\ Len(fields) = 2
  /\ result = << OutGen(DefaultProjection(fields)) >>

\* C10: a positional-field, unit, enum or union definition with any number
\* of well-formed directives gets a single shape error and no generated
\* type, however many directives it carries.
C10_IneligibleShape ==
  (pc = "done" /\ shape # "named" /\ AllParse) =>
    /\ Len(result) = 1
    /\ result[1].t = "compile_error"
    /\ result[1].err.kind = "shape"
    /\ partial_structs = << >>

C10_Witness ==
  /\ pc = "done" /\ shape = "unit" /\ Len(attrs) = 2 /\ AllParse
  /\ attrs[1] # << >>
  /\ result[1].err.kind = "shape"


(***************************************************************************)
(* Properties of the directive parser, read off the collection loop while  *)
(* it runs (pc = "collect"): attribute n has been parsed once n is in      *)
(* `parsed`.                                                               *)
(***************************************************************************)
Lits(d) == SelectSeq(d, LAMBDA it : it.k = "lit")
Clauses(d, key) == SelectSeq(d, LAMBDA it : it.k = "group" /\ it.key = key)
\* Every item is a string literal or a well-formed derive/omit/optional
\* clause, and there is at most one string literal.
ItemsGrammatical(d) ==
  /\ \A i \in 1..Len(d) :
       \/ d[i].k = "lit"
       \/ d[i].k = "group" /\ d[i].key \in {"derive", "omit", "optional"} /\ d[i].wf
  /\ Len(Lits(d)) <= 1
\* The grammar as stated: in addition, at most one clause of each kind.
StatedGrammar(d) ==
  /\ ItemsGrammatical(d)
  /\ \A key \in {"derive", "omit", "optional"} : Len(Clauses(d, key)) <= 1
\* The identifiers of all the clauses of one kind, in the order written.
Merged(d, key) == Concat(MapSeq(Clauses(d, key), LAMBDA it : it.list))
DirectiveOf(d) ==
  [target_name |-> IF Lits(d) = << >> THEN None ELSE Some(Lits(d)[1].key),
   derive_traits |-> Merged(d, "derive"),
   omit_fields |-> Merged(d, "omit"),
   optional_fields |-> Merged(d, "optional")]
Ungrammatical == {n \in parsed : ~ItemsGrammatical(attrs[n])}

\* C11 as stated: a directive parses exactly when it holds at most one
\* string literal and at most one derive, one omit and one optional clause
\* and nothing else; anything else is a syntax error.
C11_AtMostOneClause ==
  pc = "collect" =>
    (first_error = None <=> \A n \in parsed : StatedGrammar(attrs[n]))

\* C11, amended: a directive parses exactly when it holds at most one string
\* literal and otherwise only well-formed derive, omit and optional
\* clauses, any number of each; the lists of repeated clauses of one kind
\* are concatenated in the order written.  A second string literal, another
\* keyword or any other item is a syntax error at the first offending item.
C11_DirectiveGrammar ==
  pc = "collect" =>
    IF Ungrammatical = {}
    THEN /\ first_error = None
         /\ partial_args_list = [n \in 1..Cardinality(parsed) |-> DirectiveOf(attrs[n])]
    ELSE /\ first_error # None
         /\ first_error[1].kind = "syntax"
         /\ first_error[1].attr \in Ungrammatical
         /\ \A n \in Ungrammatical : first_error[1].attr <= n
         /\ ~ItemsGrammatical(SubSeq(attrs[first_error[1].attr], 1, first_error[1].item))
         /\ ItemsGrammatical(SubSeq(attrs[first_error[1].attr], 1, first_error[1].item - 1))

C11_Witness ==
  /\ pc = "collect" /\ parsed = {1} /\ first_error = None
  /\ attrs[1] = << Group("omit", << 2 >>), Group("omit", << 1 >>) >>
  /\ partial_args_list[1].omit_fields = << 2, 1 >>


\* C12: to_<record>_cloned, called on a projection with a list of omitted
\* values and overrides, returns the record to_<record> returns on the same
\* projection and arguments, panics in exactly the same cases, takes one
\* argument per parameter of to_<record>, and leaves the projection as it
\* was.
C12_ClonedAgreesWithConsuming ==
  [][(rpc # "rebuilt_cloned" /\ rpc' = "rebuilt_cloned") =>
       /\ panicked' = ToFull(Gen(sel), proj, call_args').panic
       /\ rebuilt' = ToFull(Gen(sel), proj, call_args').value
       /\ Len(call_args') = Len(Gen(sel).to_params)
       /\ proj' = proj]_vars

C12_Witness ==
  /\ rpc = "rebuilt_cloned" /\ ~panicked
  /\ DeclIncluded # << >> /\ DeclOmitted # << >>
  /\ \E f \in Range(DeclOptional) :
       /\ proj[f] # None /\ Override(f) # None /\ Override(f) # proj[f]
       /\ rebuilt[f] = proj[f][1]
  /\ rebuilt = ToFull(Gen(sel), proj, call_args).value

=============================================================================
